---- MODULE Spec2Model ----
(***************************************************************************)
(* Model of SerialController/TestImageRecognition.py: the three-frame      *)
(* interframe difference getInterframeDiff and the capture loop            *)
(* testInterframeDiff that drives it.                                      *)
(*                                                                         *)
(* A frame is a single-channel 8-bit matrix [kind, h, w, px], px[r][c] the  *)
(* sample of row r, column c (from 0).  A cv2 call that raises             *)
(* cv2.error yields the value CvError, and every later call of the same    *)
(* function body propagates it (the exception leaves the function).        *)
(***************************************************************************)
EXTENDS Integers, Sequences, FiniteSets, TLC

\* ------------------------------------------------------------------ bounds
\* Frames of the patch input family are at most MaxDim x MaxDim.
MaxDim == 4
\* The capture loop reads at most MaxReads frames from the camera.
MaxReads == 6

\* ------------------------------------------------------------ matrices
Pos(h, w) == (0 .. h - 1) \X (0 .. w - 1)

\* The outcome of a cv2 call that raised cv2.error.
CvError == [kind |-> "error", h |-> 0, w |-> 0, px |-> << >>]

Mat(h, w, px) == [kind |-> "mat", h |-> h, w |-> w, px |-> px]

\* m holds 8-bit samples (CV_8U), one per position.
Is8U(m) == m.px \in [0 .. m.h - 1 -> [0 .. m.w - 1 -> 0 .. 255]]

\* A local that has not been assigned yet.
NoMat == [kind |-> "none", h |-> 0, w |-> 0, px |-> << >>]

IsMat(m) == m.kind = "mat"

Uniform(h, w, v) == Mat(h, w, [r \in 0 .. h - 1 |-> [c \in 0 .. w - 1 |-> v]])

SameSize(a, b) == a.h = b.h /\ a.w = b.w

\* cv2 arithmetic takes a single-channel operand with exactly one element
\* for a scalar when the two operands' sizes differ.
checkScalar(sc) == sc.h = 1 /\ sc.w = 1

Abs(x) == IF x < 0 THEN -x ELSE x

\* Mutant of BitAnd: the bitwise OR of the two differences.
RECURSIVE BitOr(_, _)
BitOr(x, y) ==
    IF x = 0 THEN y
    ELSE IF y = 0 THEN x
    ELSE (IF x % 2 = 1 \/ y % 2 = 1 THEN 1 ELSE 0) + 2 * BitOr(x \div 2, y \div 2)

RECURSIVE BitAnd(_, _)
BitAnd(x, y) ==
    IF x = 0 \/ y = 0 THEN 0
    ELSE (x % 2) * (y % 2) + 2 * BitAnd(x \div 2, y \div 2)

\* Mutant of AbsDiff8: the saturated sum (cv2.add) instead of the difference.
AddSat8(x, y) == IF x + y > 255 THEN 255 ELSE x + y

\* cv2.absdiff on two 8-bit samples.
AbsDiff8(x, y) == Abs(x - y)

\* The per-sample operation of a binary array function.
Op(name, x, y) == IF name = "absdiff" THEN AbsDiff8(x, y) ELSE BitAnd(x, y)

\* An element-wise binary cv2 operation (cv::arithm_op / cv::binary_op):
\* same size: element by element; sizes differ and one operand is a scalar:
\* the scalar against every element of the other; otherwise cv2.error.
ElementWise(name, a, b) ==
    IF ~IsMat(a) \/ ~IsMat(b) THEN CvError
    ELSE IF SameSize(a, b)
        THEN Mat(a.h, a.w, [r \in 0 .. a.h - 1 |-> [c \in 0 .. a.w - 1 |->
                                Op(name, a.px[r][c], b.px[r][c])]])
    ELSE IF checkScalar(a)
        THEN Mat(b.h, b.w, [r \in 0 .. b.h - 1 |-> [c \in 0 .. b.w - 1 |->
                                Op(name, a.px[0][0], b.px[r][c])]])
    ELSE IF checkScalar(b)
        THEN Mat(a.h, a.w, [r \in 0 .. a.h - 1 |-> [c \in 0 .. a.w - 1 |->
                                Op(name, a.px[r][c], b.px[0][0])]])
    ELSE CvError

absdiff(a, b) == ElementWise("absdiff", a, b)

bitwise_and(a, b) == ElementWise("bitwise_and", a, b)

\* Mutant of ThreshBinary: THRESH_BINARY_INV.
ThreshBinaryInv(v, thresh, maxval) == IF v > thresh THEN 0 ELSE maxval

\* Mutant of ThreshBinary: THRESH_TOZERO, the sample kept instead of maxval.
ThreshToZero(v, thresh, maxval) == IF v > thresh THEN v ELSE 0

\* cv2.threshold(src, thresh, maxval, THRESH_BINARY)[1] on 8-bit samples.
ThreshBinary(v, thresh, maxval) == IF v > thresh THEN maxval ELSE 0

threshold_binary(src, thresh, maxval) ==
    IF ~IsMat(src) THEN CvError
    ELSE Mat(src.h, src.w,
             [r \in 0 .. src.h - 1 |-> [c \in 0 .. src.w - 1 |->
                 ThreshBinary(src.px[r][c], thresh, maxval)]])

\* cv2.medianBlur(src, 3): the median of the 3x3 neighbourhood, the border
\* replicated (BORDER_REPLICATE).
Clamp(i, n) == IF i < 0 THEN 0 ELSE IF i > n - 1 THEN n - 1 ELSE i

\* The sample at row r, column c, coordinates outside the image clamped.
At(src, r, c) == src.px[Clamp(r, src.h)][Clamp(c, src.w)]

Window(src, p) ==
    <<At(src, p[1] - 1, p[2] - 1), At(src, p[1] - 1, p[2]), At(src, p[1] - 1, p[2] + 1),
      At(src, p[1], p[2] - 1), At(src, p[1], p[2]), At(src, p[1], p[2] + 1),
      At(src, p[1] + 1, p[2] - 1), At(src, p[1] + 1, p[2]), At(src, p[1] + 1, p[2] + 1)>>

\* Mutant of Median9: the smallest of the nine samples (an erosion).
Min9(win) ==
    CHOOSE v \in {win[i] : i \in 1 .. 9} : \A i \in 1 .. 9 : v <= win[i]

\* Mutant of Median9: the sixth smallest of the nine samples.
Rank6of9(win) ==
    CHOOSE v \in {win[i] : i \in 1 .. 9} :
        /\ Cardinality({i \in 1 .. 9 : win[i] < v}) <= 5
        /\ Cardinality({i \in 1 .. 9 : win[i] <= v}) >= 6

\* The fifth smallest of the nine samples.
Median9(win) ==
    CHOOSE v \in {win[i] : i \in 1 .. 9} :
        /\ Cardinality({i \in 1 .. 9 : win[i] < v}) <= 4
        /\ Cardinality({i \in 1 .. 9 : win[i] <= v}) >= 5

medianBlur(src) ==
    IF ~IsMat(src) THEN CvError
    ELSE Mat(src.h, src.w, [r \in 0 .. src.h - 1 |-> [c \in 0 .. src.w - 1 |->
                                Median9(Window(src, <<r, c>>))]])

\* ------------------------------------------------- getInterframeDiff
\* ------------------------------------------------------------- state
VARIABLES
    pc,         \* position of the running function
    frame1,     \* oldest frame of the triple
    frame2,
    frame3,     \* newest frame of the triple
    threshold,  \* threshold of the last getInterframeDiff call
    diff1,      \* locals of the last getInterframeDiff call
    diff2,
    diff,
    img_th,
    mask,       \* value returned by the last getInterframeDiff call
    cap,        \* the camera handle: "none", "opened", "closed", "released"
    nread,      \* frames read from the camera so far
    ids,        \* capture numbers of the frames held in frame1, frame2, frame3
    calls,      \* one entry per getInterframeDiff call of the loop: the capture
                \* numbers of its arguments and the frames read so far
    shown,      \* number of times the loop displayed Frame2 and Mask
    windows,    \* names of the open display windows
    key         \* result of the last key poll

vars == <<pc, frame1, frame2, frame3, threshold, diff1, diff2, diff, img_th, mask,
          cap, nread, ids, calls, shown, windows, key>>

callVars == <<threshold, diff1, diff2, diff, img_th, mask>>

loopVars == <<cap, nread, ids, calls, shown, windows, key>>

\* ------------------------------------------------------------ inputs
\* Sample values of equal frames, and of frame1, frame2 and frame3 otherwise:
\* the absolute differences 0, 16, 32 and 48 occur, among them 32 against 16,
\* whose bitwise AND is 0, and 48 against 16 and 32.
Vals == {0, 16, 48}
Vals1 == {0, 16}
Vals2 == {16, 48}
Vals3 == {16, 64}

\* Thresholds passed by a caller: the loop's 15, 20 (between the differences
\* 16 and 32), the upper end of [0, 255] and one on either side outside.
Thresholds == {-1, 15, 20, 255, 256}

\* Sizes <<height, width>> of the frames enumerated sample by sample.
Shapes == {<<1, 1>>, <<1, 2>>, <<2, 1>>, <<1, 3>>, <<3, 1>>, <<2, 2>>}

FramesOver(h, w, V) == {Mat(h, w, f) : f \in [0 .. h - 1 -> [0 .. w - 1 -> V]]}

\* frame2 of the patch family: background bg with the rectangle
\* rows r0..r1, columns c0..c1 set to v.
Patch(h, w, bg, v, r0, r1, c0, c1) ==
    Mat(h, w, [r \in 0 .. h - 1 |-> [c \in 0 .. w - 1 |->
                  IF r0 <= r /\ r <= r1 /\ c0 <= c /\ c <= c1 THEN v ELSE bg]])

\* Every triple of same-size frames of these sizes.
ExhaustiveInputs ==
    \E s \in Shapes :
        /\ frame1 \in FramesOver(s[1], s[2], Vals1)
        /\ frame2 \in FramesOver(s[1], s[2], Vals2)
        /\ frame3 \in FramesOver(s[1], s[2], Vals3)

\* Three equal frames.
EqualInputs ==
    \E s \in Shapes :
        /\ frame1 \in FramesOver(s[1], s[2], Vals)
        /\ frame2 = frame1
        /\ frame3 = frame1

\* Frames whose sizes are chosen independently.
MixedSizeInputs ==
    \E s1 \in Shapes, s2 \in Shapes, s3 \in Shapes :
        \E v1 \in Vals1, v2 \in Vals2, v3 \in Vals3 :
            /\ frame1 = Uniform(s1[1], s1[2], v1)
            /\ frame2 = Uniform(s2[1], s2[2], v2)
            /\ frame3 = Uniform(s3[1], s3[2], v3)

\* Uniform frame1 and frame3, frame2 uniform but for one rectangle.
PatchInputs ==
    \E h \in 1 .. MaxDim, w \in 1 .. MaxDim :
        \E r0 \in 0 .. h - 1, c0 \in 0 .. w - 1 :
            \E r1 \in r0 .. h - 1, c1 \in c0 .. w - 1 :
                \E v1 \in Vals1, bg \in Vals2, v3 \in Vals3 : \E v \in Vals2 \ {bg} :
                    /\ frame1 = Uniform(h, w, v1)
                    /\ frame2 = Patch(h, w, bg, v, r0, r1, c0, c1)
                    /\ frame3 = Uniform(h, w, v3)

LoopIdle ==
    /\ cap = "none"
    /\ nread = 0
    /\ ids = <<0, 0, 0>>
    /\ calls = <<>>
    /\ shown = 0
    /\ windows = {}
    /\ key = "none"

\* ---------------------------------------- a call of getInterframeDiff
Init ==
    /\ pc = "args"
    /\ ExhaustiveInputs \/ EqualInputs \/ MixedSizeInputs \/ PatchInputs
    /\ threshold = 0
    /\ diff1 = NoMat
    /\ diff2 = NoMat
    /\ diff = NoMat
    /\ img_th = NoMat
    /\ mask = NoMat
    /\ LoopIdle

\* lines 38-47: the body of getInterframeDiff, called with threshold t on
\* frame1, frame2, frame3.  A local assigned after a call that raised holds
\* CvError, and so does the value returned.
getInterframeDiff(t) ==
    /\ threshold' = t
    /\ diff1' = absdiff(frame1, frame2)
    /\ Is8U(diff1')
    /\ diff2' = absdiff(frame2, frame3)
    /\ Is8U(diff2')
    /\ diff' = bitwise_and(diff1', diff2')
    /\ Is8U(diff')
    /\ img_th' = threshold_binary(diff', t, 255)
    /\ Is8U(img_th')
    /\ mask' = medianBlur(img_th')

Call(t) ==
    /\ pc = "args"
    /\ getInterframeDiff(t)
    /\ pc' = IF IsMat(mask') THEN "returned" ELSE "raised"
    /\ UNCHANGED <<frame1, frame2, frame3, loopVars>>

Next == \E t \in Thresholds : Call(t)

Spec == Init /\ [][Next]_vars

\* ------------------------------------------------ testInterframeDiff
\* Grayscale frames the camera can deliver (all of one size).
CamFrames == FramesOver(1, 2, Vals2)

\* The threshold the loop passes.
LoopThreshold == 15

Keys == {"q", "other", "none"}

LoopInit ==
    /\ pc = "L50"
    /\ frame1 = NoMat
    /\ frame2 = NoMat
    /\ frame3 = NoMat
    /\ threshold = 0
    /\ diff1 = NoMat
    /\ diff2 = NoMat
    /\ diff = NoMat
    /\ img_th = NoMat
    /\ mask = NoMat
    /\ LoopIdle

\* line 50: the device opens or it does not
Open ==
    /\ pc = "L50"
    /\ cap' \in {"opened", "closed"}
    /\ pc' = "L52"
    /\ UNCHANGED <<frame1, frame2, frame3, callVars,
                   nread, ids, calls, shown, windows, key>>

\* cap.read() delivers a frame
Grab(img) ==
    /\ cap = "opened"
    /\ nread < MaxReads
    /\ img \in CamFrames
    /\ nread' = nread + 1

\* lines 52, 56, 58: the three frames read before the loop
ReadFirst(img) ==
    /\ pc = "L52"
    /\ Grab(img)
    /\ frame1' = img
    /\ ids' = <<nread', ids[2], ids[3]>>
    /\ pc' = "L56"
    /\ UNCHANGED <<frame2, frame3, callVars, cap, calls, shown, windows, key>>

ReadSecond(img) ==
    /\ pc = "L56"
    /\ Grab(img)
    /\ frame2' = img
    /\ ids' = <<ids[1], nread', ids[3]>>
    /\ pc' = "L58"
    /\ UNCHANGED <<frame1, frame3, callVars, cap, calls, shown, windows, key>>

ReadThird(img) ==
    /\ pc = "L58"
    /\ Grab(img)
    /\ frame3' = img
    /\ ids' = <<ids[1], ids[2], nread'>>
    /\ pc' = "L60"
    /\ UNCHANGED <<frame1, frame2, callVars, cap, calls, shown, windows, key>>

\* cap.read() returns (False, None); slicing None raises TypeError
ReadFail ==
    /\ pc \in {"L52", "L56", "L58"}
    /\ pc' = "crashed"
    /\ UNCHANGED <<frame1, frame2, frame3, callVars, loopVars>>

\* line 60: while cap.isOpened()
LoopTest ==
    /\ pc = "L60"
    /\ pc' = IF cap = "opened" THEN "L62" ELSE "L74"
    /\ UNCHANGED <<frame1, frame2, frame3, callVars, loopVars>>

\* line 62
Compute ==
    /\ pc = "L62"
    /\ getInterframeDiff(LoopThreshold)
    /\ calls' = Append(calls, [args |-> ids, nread |-> nread])
    /\ pc' = "L64"
    /\ UNCHANGED <<frame1, frame2, frame3, cap, nread, ids, shown, windows, key>>

\* lines 64-65
Show ==
    /\ pc = "L64"
    /\ shown' = shown + 1
    /\ windows' = windows \cup {"Frame2", "Mask"}
    /\ pc' = "L67"
    /\ UNCHANGED <<frame1, frame2, frame3, callVars, cap, nread, ids, calls, key>>

\* Mutant of ShiftRead: the two shifts in the wrong order
\* (frame2 = frame3, then frame1 = frame2).
ShiftReadSwapped(img) ==
    /\ pc = "L67"
    /\ Grab(img)
    /\ frame2' = frame3
    /\ frame1' = frame3
    /\ frame3' = img
    /\ ids' = <<ids[3], ids[3], nread'>>
    /\ pc' = "L71"
    /\ UNCHANGED <<callVars, cap, calls, shown, windows, key>>

\* lines 67-69
ShiftRead(img) ==
    /\ pc = "L67"
    /\ Grab(img)
    /\ frame1' = frame2
    /\ frame2' = frame3
    /\ frame3' = img
    /\ ids' = <<ids[2], ids[3], nread'>>
    /\ pc' = "L71"
    /\ UNCHANGED <<callVars, cap, calls, shown, windows, key>>

\* lines 67-69, the read of line 69 failing
ShiftReadFail ==
    /\ pc = "L67"
    /\ frame1' = frame2
    /\ frame2' = frame3
    /\ ids' = <<ids[2], ids[3], ids[3]>>
    /\ pc' = "crashed"
    /\ UNCHANGED <<frame3, callVars, cap, nread, calls, shown, windows, key>>

\* Mutant of WaitKey: the break is missing.
WaitKeyNoBreak(k) ==
    /\ pc = "L71"
    /\ key' = k
    /\ pc' = "L60"
    /\ UNCHANGED <<frame1, frame2, frame3, callVars,
                   cap, nread, ids, calls, shown, windows>>

\* lines 71-72
WaitKey(k) ==
    /\ pc = "L71"
    /\ key' = k
    /\ pc' = IF k = "q" THEN "L74" ELSE "L60"
    /\ UNCHANGED <<frame1, frame2, frame3, callVars,
                   cap, nread, ids, calls, shown, windows>>

\* lines 74-76
Release ==
    /\ pc = "L74"
    /\ cap' = "released"
    /\ windows' = {}
    /\ pc' = "done"
    /\ UNCHANGED <<frame1, frame2, frame3, callVars,
                   nread, ids, calls, shown, key>>

LoopNext ==
    \/ Open
    \/ \E img \in CamFrames : ReadFirst(img)
    \/ \E img \in CamFrames : ReadSecond(img)
    \/ \E img \in CamFrames : ReadThird(img)
    \/ ReadFail
    \/ LoopTest
    \/ Compute
    \/ Show
    \/ \E img \in CamFrames : ShiftRead(img)
    \/ ShiftReadFail
    \/ \E k \in Keys : WaitKey(k)
    \/ Release

\* The script runs sequentially: it takes its next step whenever it has one.
LoopSpec == LoopInit /\ [][LoopNext]_vars /\ WF_vars(LoopNext)

\* ================================================================ claims
\* -------------------------------------------- getInterframeDiff (Spec)
Returned == pc = "returned"

Ended == pc \in {"returned", "raised"}

SameDims == SameSize(frame1, frame2) /\ SameSize(frame2, frame3)

InRange(t) == 0 <= t /\ t <= 255

\* The sample at p differs by more than the threshold from frame1 to frame2,
\* and from frame2 to frame3.
Changed1(p) == Abs(frame1.px[p[1]][p[2]] - frame2.px[p[1]][p[2]]) > threshold

Changed2(p) == Abs(frame2.px[p[1]][p[2]] - frame3.px[p[1]][p[2]]) > threshold

\* The bitwise AND of the two absolute differences at p exceeds the threshold.
ChangedAnd(p) ==
    BitAnd(Abs(frame1.px[p[1]][p[2]] - frame2.px[p[1]][p[2]]),
           Abs(frame2.px[p[1]][p[2]] - frame3.px[p[1]][p[2]])) > threshold

MaskPos == Pos(mask.h, mask.w)

\* The position at offset d from p in the mask, the border replicated.
Neighbour(p, d) == <<Clamp(p[1] + d[1], mask.h), Clamp(p[2] + d[2], mask.w)>>

\* The nine offsets of a 3x3 neighbourhood.
Offsets == {-1, 0, 1} \X {-1, 0, 1}

Count255(m) ==
    LET mm == m
    IN  Cardinality({p \in Pos(mm.h, mm.w) : mm.px[p[1]][p[2]] = 255})

\* C1 as stated: a pixel of the returned mask is 255 only if that same pixel
\* differs by more than the threshold in both transitions.
C1_MaskOnlyWhereChanged ==
    (Returned /\ SameDims) =>
        \A p \in MaskPos : mask.px[p[1]][p[2]] = 255 => (Changed1(p) /\ Changed2(p))

\* C1 (amended): a pixel of the binarized image img_th is 255 only if that
\* same pixel differs by more than the threshold in both transitions, and a
\* pixel of the returned mask is 255 only if at least five of the nine
\* samples of its 3x3 neighbourhood (border replicated) do.
C1_MaskOnlyWhereMajorityChanged ==
    (Returned /\ SameDims) =>
        \A p \in MaskPos :
            /\ img_th.px[p[1]][p[2]] = 255 => (Changed1(p) /\ Changed2(p))
            /\ mask.px[p[1]][p[2]] = 255 =>
                  Cardinality({d \in Offsets :
                                  /\ Changed1(Neighbour(p, d))
                                  /\ Changed2(Neighbour(p, d))}) >= 5

\* C1 witness: the median filter has set a pixel that did not change itself.
C1_Witness ==
    /\ Returned /\ SameDims /\ InRange(threshold)
    /\ \E p \in MaskPos :
          /\ mask.px[p[1]][p[2]] = 255
          /\ img_th.px[p[1]][p[2]] = 0
          /\ ~Changed1(p)

\* The rectangular blocks of at least 3x3 pixels of an h x w frame,
\* <<first row, last row, first column, last column>>.
Blocks(h, w) ==
    UNION {{<<b[1], r1, b[2], c1>> : r1 \in b[1] + 2 .. h - 1, c1 \in b[2] + 2 .. w - 1} :
              b \in (0 .. h - 3) \X (0 .. w - 3)}

BlockPos(b) == (b[1] .. b[2]) \X (b[3] .. b[4])

\* The corners of block b that do not lie on the border of the h x w frame.
InnerCorners(b, h, w) ==
    {p \in {b[1], b[2]} \X {b[3], b[4]} :
        p[1] \notin {0, h - 1} /\ p[2] \notin {0, w - 1}}

\* C2 as stated: every pixel of a 3x3-or-larger block changed by more than
\* the threshold in both transitions is 255 in the returned mask.
C2_BlockStays255 ==
    (Returned /\ SameDims) =>
        \A b \in Blocks(mask.h, mask.w) :
            (\A p \in BlockPos(b) : Changed1(p) /\ Changed2(p)) =>
                \A p \in BlockPos(b) : mask.px[p[1]][p[2]] = 255

\* C2 (amended): when the bitwise AND of the two absolute differences
\* exceeds the threshold at every pixel of a 3x3-or-larger block, every pixel
\* of the block is 255 in the returned mask, except possibly the corners of
\* the block that do not lie on the border of the frame.
C2_BlockStays255ButInnerCorners ==
    (Returned /\ SameDims) =>
        \A b \in Blocks(mask.h, mask.w) :
            (\A p \in BlockPos(b) : ChangedAnd(p)) =>
                \A p \in BlockPos(b) \ InnerCorners(b, mask.h, mask.w) :
                    mask.px[p[1]][p[2]] = 255

\* C2 witness: a changed 3x3 block whose inner corner the median filter
\* removed while the rest of the block stayed 255.
C2_Witness ==
    /\ Returned /\ SameDims /\ InRange(threshold)
    /\ \E b \in Blocks(mask.h, mask.w) :
          /\ \A p \in BlockPos(b) : ChangedAnd(p)
          /\ \E p \in InnerCorners(b, mask.h, mask.w) : mask.px[p[1]][p[2]] = 0
          /\ \A p \in BlockPos(b) \ InnerCorners(b, mask.h, mask.w) : mask.px[p[1]][p[2]] = 255

\* frame1 and frame3 are one uniform gray frame of at least two pixels and
\* frame2 differs from it at the single position q, where it is higher by
\* more than the threshold.
Speck(q) ==
    /\ SameDims
    /\ frame1.h * frame1.w >= 2
    /\ frame3 = frame1
    /\ \A p \in Pos(frame1.h, frame1.w) : frame1.px[p[1]][p[2]] = frame1.px[q[1]][q[2]]
    /\ \A p \in Pos(frame1.h, frame1.w) \ {q} : frame2.px[p[1]][p[2]] = frame1.px[p[1]][p[2]]
    /\ frame2.px[q[1]][q[2]] - frame1.px[q[1]][q[2]] > threshold
    /\ InRange(threshold)

\* C3 as stated: an isolated pixel high in frame2 only is 255 in the
\* binarized image and the returned mask is all zero, whatever the size.
C3_SpeckRemoved ==
    Ended =>
        \A q \in Pos(frame1.h, frame1.w) :
            Speck(q) =>
                /\ Returned
                /\ img_th.px[q[1]][q[2]] = 255
                /\ \A p \in MaskPos : mask.px[p[1]][p[2]] = 0

\* C3 (amended): the same for frames of at least two rows and two columns.
C3_SpeckRemovedFrom2x2 ==
    Ended =>
        \A q \in Pos(frame1.h, frame1.w) :
            (Speck(q) /\ frame1.h >= 2 /\ frame1.w >= 2) =>
                /\ Returned
                /\ img_th.px[q[1]][q[2]] = 255
                /\ \A p \in MaskPos : mask.px[p[1]][p[2]] = 0

\* C3 witness: a speck in a corner of a frame of at least 2x2, binarized to
\* 255 and removed.
C3_Witness ==
    /\ Returned
    /\ frame1.h >= 2 /\ frame1.w >= 2
    /\ Speck(<<0, 0>>)
    /\ img_th.px[0][0] = 255
    /\ Count255(mask) = 0

\* C4 as stated: a call with a threshold outside [0, 255] raises and
\* returns no mask.
C4_InvalidThresholdRaises ==
    (Ended /\ SameDims /\ ~InRange(threshold)) => (pc = "raised" /\ ~IsMat(mask))

\* C5 as stated: a call with frames that are not all of one size raises and
\* returns no mask.
C5_DimensionMismatchRaises ==
    (Ended /\ ~SameDims) => (pc = "raised" /\ ~IsMat(mask))

\* The mask lines 43-46 produce from diff with threshold t.
MaskAt(t) ==
    LET th == threshold_binary(diff, t, 255)
    IN  medianBlur(th)

\* C6: for same-size frames and thresholds t1 <= t2 in [0, 255], the mask for
\* t2 has no more 255 pixels than the mask for t1.
C6_MonotonicThreshold ==
    (Returned /\ SameDims /\ InRange(threshold)) =>
        \A t2 \in Thresholds :
            (threshold <= t2 /\ InRange(t2)) => Count255(MaskAt(t2)) <= Count255(mask)

\* C6 witness: raising the threshold removed some but not all detections.
C6_Witness ==
    /\ Returned /\ SameDims /\ InRange(threshold)
    /\ \E t2 \in Thresholds :
          /\ threshold < t2 /\ InRange(t2)
          /\ 0 < Count255(MaskAt(t2))
          /\ Count255(MaskAt(t2)) < Count255(mask)

\* C7: for same-size frames and a threshold in [0, 255], every sample of the
\* returned mask is 0 or 255, border pixels included.
C7_BinaryMask ==
    (Ended /\ SameDims /\ InRange(threshold)) =>
        /\ Returned
        /\ mask.h = frame1.h /\ mask.w = frame1.w
        /\ \A p \in MaskPos : mask.px[p[1]][p[2]] \in {0, 255}

\* C7 witness: a 2x2 mask that holds both values.
C7_Witness ==
    /\ Returned /\ SameDims /\ InRange(threshold)
    /\ mask.h = 2 /\ mask.w = 2
    /\ \E p \in MaskPos : mask.px[p[1]][p[2]] = 0
    /\ \E p \in MaskPos : mask.px[p[1]][p[2]] = 255

\* C8: three equal frames and a positive threshold give an all-zero mask.
C8_EqualFramesZeroMask ==
    (Ended /\ frame1 = frame2 /\ frame2 = frame3 /\ threshold > 0) =>
        /\ Returned
        /\ mask.h = frame1.h /\ mask.w = frame1.w
        /\ \A p \in MaskPos : mask.px[p[1]][p[2]] = 0

\* C8 witness: three equal frames that are not uniform, a positive threshold.
C8_Witness ==
    /\ Returned /\ frame1 = frame2 /\ frame2 = frame3 /\ threshold > 0
    /\ \E p \in Pos(frame1.h, frame1.w), q \in Pos(frame1.h, frame1.w) :
          frame1.px[p[1]][p[2]] # frame1.px[q[1]][q[2]]
    /\ Count255(mask) = 0

\* ------------------------------------------ testInterframeDiff (LoopSpec)
\* The calls of getInterframeDiff that had frame number i for frame3.
AsFrame3(i) == {k \in 1 .. Len(calls) : calls[k].args[3] = i}

\* Every call got the three most recently captured frames, oldest first.
LastThreeInOrder ==
    \A k \in 1 .. Len(calls) :
        calls[k].args = <<calls[k].nread - 2, calls[k].nread - 1, calls[k].nread>>

\* C9 as stated: every call gets the three most recently captured frames in
\* capture order, and every frame read from the camera is frame3 of exactly
\* one call.
C9_EveryFrameOnceFrame3 ==
    /\ LastThreeInOrder
    /\ pc = "done" => \A i \in 1 .. nread : Cardinality(AsFrame3(i)) = 1

\* C9 (amended): every call gets the three most recently captured frames in
\* capture order and every frame is frame3 of at most one call; when the loop
\* has ended, the first two frames read and the frame read last were frame3
\* of no call and every other frame of exactly one.
C9_WindowIsLastThree ==
    /\ LastThreeInOrder
    /\ \A i \in 1 .. nread : Cardinality(AsFrame3(i)) <= 1
    /\ pc = "done" =>
          \A i \in 1 .. nread :
              Cardinality(AsFrame3(i)) = (IF 3 <= i /\ i < nread THEN 1 ELSE 0)

\* C9 witness: the loop ended after several iterations.
C9_Witness ==
    /\ pc = "done"
    /\ nread >= 5
    /\ Len(calls) = nread - 3
    /\ IsMat(mask)

\* C10: once the key poll returns 'q' no further mask is computed or
\* displayed; the key is polled only at the end of an iteration and the
\* camera is released only after the poll returned 'q'; and the poll
\* returning 'q' leads to the camera released and the windows destroyed.
C10_QuitEndsLoop ==
    /\ [][key = "q" => (calls' = calls /\ shown' = shown /\ key' = "q")]_vars
    /\ [][key' # key => pc = "L71"]_vars
    /\ [][(cap' = "released" /\ cap # "released") => key = "q"]_vars
    /\ (key = "q") ~> (pc = "done" /\ cap = "released" /\ windows = {})

\* C10 witness: the loop ended on 'q' after two displayed masks, the camera
\* released and the windows destroyed.
C10_Witness ==
    /\ pc = "done"
    /\ key = "q"
    /\ shown >= 2
    /\ cap = "released"
    /\ windows = {}

====
